---- MODULE Spec2Model ----
(***************************************************************************)
(* A model of zbackup's configuration subsystem (config.cc): the keyword   *)
(* registry, Config::parseToken, Config::parseOption with its token split  *)
(* and per-option handlers, and Config::editInteractively.                 *)
(*                                                                         *)
(* C strings are sequences of one-character strings; size_t values are     *)
(* little-endian sequences of SizeBytes bytes, so that 64-bit wrap-around  *)
(* is computed as the machine computes it.                                 *)
(***************************************************************************)
EXTENDS Integers, Sequences, FiniteSets, TLC

\* ------------------------------------------------------------- characters

UpperCase == <<"A","B","C","D","E","F","G","H","I","J","K","L","M",
               "N","O","P","Q","R","S","T","U","V","W","X","Y","Z">>

LowerCase == <<"a","b","c","d","e","f","g","h","i","j","k","l","m",
               "n","o","p","q","r","s","t","u","v","w","x","y","z">>

Digits == <<"0","1","2","3","4","5","6","7","8","9">>

Letters == 1..26

ToLower == [c \in {UpperCase[i] : i \in Letters} |->
              LowerCase[CHOOSE i \in Letters : UpperCase[i] = c]]

ToUpper == [c \in {LowerCase[i] : i \in Letters} |->
              UpperCase[CHOOSE i \in Letters : LowerCase[i] = c]]

\* tolower(3) in the C locale.
tolower(c) == IF c \in DOMAIN ToLower THEN ToLower[c] ELSE c

\* toupper(3) in the C locale (used only to enumerate spellings of a name).
toupper(c) == IF c \in DOMAIN ToUpper THEN ToUpper[c] ELSE c

\* isspace(3) in the C locale, over the characters the model uses.
isspace(c) == c \in {" ", "\t", "\n"}

DigitValues == [c \in {Digits[i] : i \in 1..10} |->
                  (CHOOSE i \in 1..10 : Digits[i] = c) - 1]

isdigit(c) == c \in DOMAIN DigitValues

DigitValue(c) == DigitValues[c]

\* strcmp( a, b ) == 0
strcmp0(a, b) == a = b

\* strcasecmp( a, b ) == 0
strcasecmp0(a, b) ==
  /\ Len(a) = Len(b)
  /\ \A i \in 1..Len(a) : tolower(a[i]) = tolower(b[i])

\* The suffix loop of the cache-size handler: every character lowered.
LowerString(s) == [i \in 1..Len(s) |-> tolower(s[i])]

\* The character classes the scanf directives of parseOption read.
InClass(c, cls) ==
  CASE cls = "notEq"    -> c # "="
    [] cls = "space"    -> isspace(c)
    [] cls = "notSpace" -> ~isspace(c)
    [] cls = "digit"    -> isdigit(c)

\* The index of the last character of the run of class cls that starts at s[i]
\* (i - 1 when the run is empty).
RECURSIVE SpanEnd(_, _, _)
SpanEnd(s, i, cls) ==
  IF i > Len(s) \/ ~InClass(s[i], cls) THEN i - 1 ELSE SpanEnd(s, i + 1, cls)

Drop(s, n) == SubSeq(s, n + 1, Len(s))

Take(s, n) == SubSeq(s, 1, n)

\* ---------------------------------------------------------- size_t values

\* sizeof( size_t ) on the 64-bit targets zbackup builds for.
SizeBytes == 8

\* A w-byte unsigned integer, least significant byte first.
Zero(w) == [i \in 1..w |-> 0]

AllOnes(w) == [i \in 1..w |-> 255]

\* n as a w-byte unsigned integer, for 0 <= n < 2^31.
RECURSIVE FromNat(_, _)
FromNat(n, w) == IF w = 0 THEN <<>> ELSE <<n % 256>> \o FromNat(n \div 256, w - 1)

\* The bytes of a + b from byte k on, given the carry into byte k, followed by
\* the carry out of the top byte.
RECURSIVE AddFrom(_, _, _, _)
AddFrom(a, b, k, carry) ==
  IF k > Len(a) THEN <<carry>>
  ELSE LET sum == a[k] + b[k] + carry
       IN  <<sum % 256>> \o AddFrom(a, b, k + 1, sum \div 256)

\* a + b modulo 2^(8w), and whether the sum left the w bytes.
AddMod(a, b) == Take(AddFrom(a, b, 1, 0), Len(a))

AddOverflows(a, b) == AddFrom(a, b, 1, 0)[Len(a) + 1] # 0

\* The bytes of a * m from byte k on, for a byte-sized m, followed by the
\* carry out of the top byte.
RECURSIVE MulByteFrom(_, _, _, _)
MulByteFrom(a, m, k, carry) ==
  IF k > Len(a) THEN <<carry>>
  ELSE LET prod == a[k] * m + carry
       IN  <<prod % 256>> \o MulByteFrom(a, m, k + 1, prod \div 256)

MulByte(a, m) == Take(MulByteFrom(a, m, 1, 0), Len(a))

MulByteOverflows(a, m) == MulByteFrom(a, m, 1, 0)[Len(a) + 1] # 0

\* a shifted up by n bytes, within its w bytes.
ShiftBytes(a, n) == [k \in 1..Len(a) |-> IF k <= n THEN 0 ELSE a[k - n]]

\* The sum of the partial products a * b[j] * 256^(j-1) for j from j0 on.
RECURSIVE MulFrom(_, _, _)
MulFrom(a, b, j) ==
  IF j > Len(b) THEN Zero(Len(a))
  ELSE CHOOSE sum \in {AddMod(partial, rest) :
                         partial \in {ShiftBytes(MulByte(a, b[j]), j - 1)},
                         rest \in {MulFrom(a, b, j + 1)}} : TRUE

\* a * b modulo 2^(8w): unsigned multiplication as the machine does it.
MulMod(a, b) == MulFrom(a, b, 1)

\* -a modulo 2^(8w): negation in the unsigned type.
Negate(a) == AddMod([k \in 1..Len(a) |-> 255 - a[k]], FromNat(1, Len(a)))

IsZero(a) == \A k \in 1..Len(a) : a[k] = 0

\* ------------------------------------------------------------ scanf pieces

\* One step of strtoul's loop, base 10: the value so far times ten plus the
\* digit, and whether the value has left the w bytes.
DecimalStep(acc, digit) ==
  [value    |-> AddMod(MulByte(acc.value, 10), FromNat(digit, Len(acc.value))),
   overflow |-> \/ acc.overflow
                \/ MulByteOverflows(acc.value, 10)
                \/ AddOverflows(MulByte(acc.value, 10),
                                FromNat(digit, Len(acc.value)))]

\* The digits s[i..j] read as strtoul reads them into w bytes.
RECURSIVE DecimalValue(_, _, _, _)
DecimalValue(s, i, j, w) ==
  IF j < i THEN [value |-> Zero(w), overflow |-> FALSE]
  ELSE CHOOSE next \in {DecimalStep(acc, DigitValue(s[j])) :
                          acc \in {DecimalValue(s, i, j - 1, w)}} : TRUE

\* The conversion %zu applied to s from index i: leading white space is
\* skipped, one sign is accepted, at least one digit is required.  The value
\* is strtoul's: SIZE_MAX on overflow, otherwise the digits' value, negated
\* in the unsigned type after a minus sign.  next is the index of the first
\* character the conversion did not consume.
ScanSizeT(s, i) ==
  LET start    == SpanEnd(s, i, "space") + 1
      signed   == start <= Len(s) /\ s[start] \in {"+", "-"}
      first    == IF signed THEN start + 1 ELSE start
      last     == SpanEnd(s, first, "digit")
      acc      == DecimalValue(s, first, last, SizeBytes)
      minus    == signed /\ s[start] = "-"
  IN  IF last < first
        THEN [ok |-> FALSE, value |-> Zero(SizeBytes), next |-> start]
        ELSE [ok    |-> TRUE,
              value |-> IF acc.overflow THEN AllOnes(SizeBytes)
                        ELSE IF minus THEN Negate(acc.value)
                        ELSE acc.value,
              next  |-> last + 1]

\* The conversion %s (or %15s, width > 0) applied to s from index i: leading
\* white space is skipped and the run of non-space characters, cut to width
\* characters, is stored with a terminating NUL.
ScanWord(s, i, width) ==
  LET start == SpanEnd(s, i, "space") + 1
      run   == SpanEnd(s, start, "notSpace")
      last  == IF width > 0 /\ run - start + 1 > width
                 THEN start + width - 1 ELSE run
  IN  IF last < start
        THEN [ok |-> FALSE, word |-> <<>>, next |-> start]
        ELSE [ok |-> TRUE, word |-> SubSeq(s, start, last), next |-> last + 1]

\* sscanf( option, "%[^=]=%s", optionName, optionValue ): the number of
\* conversions assigned (-1 is EOF), what each buffer receives, and the bytes
\* written to each buffer, the terminating NUL included.
ScanOption(option) ==
  LET nameEnd == SpanEnd(option, 1, "notEq")
      val     == ScanWord(option, nameEnd + 2, 0)
      r       == IF Len(option) = 0 THEN -1
                 ELSE IF nameEnd = 0 THEN 0
                 ELSE IF nameEnd = Len(option) THEN 1
                 ELSE IF ~val.ok THEN 1
                 ELSE 2
  IN  [r           |-> r,
       optionName  |-> IF r >= 1 THEN Take(option, nameEnd) ELSE <<>>,
       optionValue |-> IF r = 2 THEN val.word ELSE <<>>,
       nameBytes   |-> IF r >= 1 THEN nameEnd + 1 ELSE 0,
       valueBytes  |-> IF r = 2 THEN Len(val.word) + 1 ELSE 0]

\* sscanf( optionValue, "%zu %n", &sizeValue, &n ): the conversions assigned,
\* and sizeValue and n when they are.  n counts the characters consumed, the
\* white space after the number included.
ScanThreadsValue(optionValue) ==
  LET scan == ScanSizeT(optionValue, 1)
  IN  IF ~scan.ok THEN [r |-> 0, sizeValue |-> Zero(SizeBytes), n |-> 0]
      ELSE [r |-> 1, sizeValue |-> scan.value,
            n |-> SpanEnd(optionValue, scan.next, "space")]

\* sscanf( optionValue, "%zu %15s %n", &sizeValue, suffix, &n )
ScanCacheSizeValue(optionValue) ==
  LET scan == ScanSizeT(optionValue, 1)
      word == ScanWord(optionValue, scan.next, 15)
  IN  IF ~scan.ok
        THEN [r |-> 0, sizeValue |-> Zero(SizeBytes), suffix |-> <<>>, n |-> 0]
      ELSE IF ~word.ok
        THEN [r |-> 1, sizeValue |-> scan.value, suffix |-> <<>>, n |-> 0]
      ELSE [r |-> 2, sizeValue |-> scan.value, suffix |-> word.word,
            n |-> SpanEnd(optionValue, word.next, "space")]

\* ---------------------------------------------------------------- registry

kChunkMaxSize == <<"c","h","u","n","k",".","m","a","x","_","s","i","z","e">>

kBundleMaxPayloadSize ==
  <<"b","u","n","d","l","e",".","m","a","x","_","p","a","y","l","o","a","d",
    "_","s","i","z","e">>

kBundleCompressionMethod ==
  <<"b","u","n","d","l","e",".","c","o","m","p","r","e","s","s","i","o","n",
    "_","m","e","t","h","o","d">>

kCompression == <<"c","o","m","p","r","e","s","s","i","o","n">>

kThreads == <<"t","h","r","e","a","d","s">>

kCacheSize == <<"c","a","c","h","e","-","s","i","z","e">>

kExchange == <<"e","x","c","h","a","n","g","e">>

\* ConfigHelper::keywords, without its terminating { NULL, oBadOption, None }.
keywords ==
  << [name |-> kChunkMaxSize,            opcode |-> "oChunk_max_size",
      type |-> "Storable"],
     [name |-> kBundleMaxPayloadSize,    opcode |-> "oBundle_max_payload_size",
      type |-> "Storable"],
     [name |-> kBundleCompressionMethod, opcode |-> "oBundle_compression_method",
      type |-> "Storable"],
     [name |-> kCompression,             opcode |-> "oBundle_compression_method",
      type |-> "Storable"],
     [name |-> kThreads,                 opcode |-> "oRuntime_threads",
      type |-> "Runtime"],
     [name |-> kCacheSize,               opcode |-> "oRuntime_cacheSize",
      type |-> "Runtime"],
     [name |-> kExchange,                opcode |-> "oRuntime_exchange",
      type |-> "Runtime"] >>

OptionTypes == {"Storable", "Runtime"}

\* The loop of Config::parseToken from entry i on: the first entry whose name
\* matches decides; a type mismatch breaks out of the loop.
RECURSIVE parseTokenFrom(_, _, _)
parseTokenFrom(option, type, i) ==
  IF i > Len(keywords) THEN "oBadOption"
  ELSE IF strcasecmp0(option, keywords[i].name)
    THEN IF keywords[i].type # type THEN "oBadOption" ELSE keywords[i].opcode
    ELSE parseTokenFrom(option, type, i + 1)

\* A lookup that forgets the category check.
RECURSIVE parseTokenAnyType(_, _, _)
parseTokenAnyType(option, type, i) ==
  IF i > Len(keywords) THEN "oBadOption"
  ELSE IF strcasecmp0(option, keywords[i].name)
    THEN keywords[i].opcode
    ELSE parseTokenAnyType(option, type, i + 1)

\* ------------------------------------------------------- option values

lzma == <<"l","z","m","a">>

lzo1x_1 == <<"l","z","o","1","x","_","1">>

lzo == <<"l","z","o">>

backups == <<"b","a","c","k","u","p","s">>

bundles == <<"b","u","n","d","l","e","s">>

index == <<"i","n","d","e","x">>

\* ------------------------------------------------------------ token inputs

\* The most letters of a registered name an input spells in upper case
\* (besides the spelling that is upper case throughout).
MaxUpper == 1

\* The longest value of a threads= token built from ThreadsChars.
MaxThreadsLen == 2

\* The longest number of a cache-size= token built from NumberChars.
MaxNumberLen == 2

\* Every sequence over alphabet of length at most n.
Strings(alphabet, n) == UNION {[1..k -> alphabet] : k \in 0..n}

WithValue(name, value) == name \o <<"=">> \o value

Values(name, values) == {WithValue(name, v) : v \in values}

\* s with the letters at the positions in P in upper case.
UpperAt(s, P) == [i \in 1..Len(s) |-> IF i \in P THEN toupper(s[i]) ELSE s[i]]

\* Spellings of a name: up to MaxUpper letters in upper case, or all of them.
Spellings(name) ==
  {UpperAt(name, {pos[i] : i \in 1..MaxUpper}) :
     pos \in [1..MaxUpper -> 1..Len(name)]}
    \cup {name, UpperAt(name, 1..Len(name))}

RegisteredNames == {keywords[i].name : i \in 1..Len(keywords)}

\* Names that no descriptor carries: the empty name, a name cut short, a name
\* with a character too many, another word.
UnregisteredNames ==
  {<<>>, <<"h","e","l","p">>}
    \cup {Take(n, Len(n) - 1) : n \in RegisteredNames}
    \cup {n \o <<"s">> : n \in RegisteredNames}

LookupNames == UNION {Spellings(n) : n \in RegisteredNames} \cup UnregisteredNames

\* Tokens of the storable side: the compression method under both of its
\* names, the two size options, and tokens that name nothing.
CompressionValues ==
  {lzma, lzo, lzo1x_1, <<"b","o","g","u","s">>, <<"L","Z","M","A">>, <<>>, <<"l","z","m","a"," ","x">>, <<" ","l","z","o">>}

StorableTokens ==
  {kCompression, kBundleCompressionMethod, kChunkMaxSize, kBundleMaxPayloadSize, <<>>}
    \cup Values(kCompression, CompressionValues)
    \cup Values(kBundleCompressionMethod, {lzma, lzo1x_1, <<"b","o","g","u","s">>})
    \cup Values(UpperAt(kCompression, {1}), {lzma, lzo})
    \cup Values(kChunkMaxSize, {<<"6","5","5","3","6">>, lzma, <<>>})
    \cup Values(kBundleMaxPayloadSize, {<<"2","0","9","7","1","5","2">>, <<"0">>})
    \cup Values(UpperAt(kChunkMaxSize, {1, 7}), {<<"6","5","5","3","6">>})

\* Tokens of the exchange option.
ExchangeValues ==
  {backups, bundles, index, UpperAt(backups, {1}), <<"a","l","l">>, <<>>,
   <<" ">> \o index, backups \o <<" ">> \o index, <<"=">> \o index}

ExchangeTokens ==
  {kExchange, UpperAt(kExchange, 1..Len(kExchange)) \o <<"=">> \o index}
    \cup Values(kExchange, ExchangeValues)

\* Tokens of the threads option: every value over ThreadsChars up to
\* MaxThreadsLen characters, and the values worth naming.
ThreadsChars == {"0", "1", "-", "x"}

SizeMaxDigits == <<"1","8","4","4","6","7","4","4","0","7","3","7","0","9","5","5","1","6","1","5">>

ThreadsValues ==
  Strings(ThreadsChars, MaxThreadsLen)
    \cup {<<"4">>, <<"a","b","c">>, <<"+","4">>, <<"0","4">>, <<"4","x">>, <<"4",".","5">>,
          SizeMaxDigits, <<"1","8","4","4","6","7","4","4","0","7","3","7","0","9","5","5","1","6","1","6">>, <<"-">> \o SizeMaxDigits}

ThreadsTokens ==
  {kThreads, UpperAt(kThreads, {1}) \o <<"=","4">>} \cup Values(kThreads, ThreadsValues)

\* Tokens of the cache-size option: a number over NumberChars followed by a
\* suffix, and the values worth naming.
NumberChars == {"1", "-"}

SuffixB == <<"B">>

SuffixKiB == <<"K","i","B">>

SuffixMiB == <<"M","i","B">>

SuffixGiB == <<"G","i","B">>

SuffixKB == <<"K","B">>

SuffixMB == <<"M","B">>

SuffixGB == <<"G","B">>

TableSuffixes == {SuffixB, SuffixKiB, SuffixMiB, SuffixGiB, SuffixKB, SuffixMB, SuffixGB}

Suffixes ==
  TableSuffixes
    \cup {<<>>, LowerString(SuffixMiB), <<"m","I","b">>, <<"k","b">>, <<"x","y","z">>,
          SuffixMiB \o <<"x">>, <<"K","i">>, <<" ">> \o SuffixMB}

CacheSizeValues ==
  {n \o x : n \in Strings(NumberChars, MaxNumberLen), x \in Suffixes}
    \cup {<<"1","0">> \o SuffixMiB, <<"1","0">> \o SuffixMB, <<"0">> \o SuffixB,
          <<"1","0">>, <<"1","0">> \o <<"x","y","z">>, <<"+","1","0">> \o SuffixMiB,
          <<"1","7","1","7","9","8","6","9","1","8","4">> \o SuffixGiB, SizeMaxDigits \o SuffixKB,
          <<"1">> \o SuffixB \o <<"1","2","3","4","5","6","7","8","9","0","1","2","3","4","5">>}

CacheSizeTokens ==
  {kCacheSize, UpperAt(kCacheSize, {1}) \o <<"=","1">> \o SuffixKB}
    \cup Values(kCacheSize, CacheSizeValues)

\* A few tokens of every option, and tokens that name nothing.
CoreTokens ==
  RegisteredNames
    \cup Values(kThreads, {<<"4">>, <<"0">>, <<"a","b","c">>, <<"-","1">>})
    \cup Values(kCacheSize, {<<"1","0">> \o SuffixMiB, <<"1","0">>,
                             <<"1","0">> \o <<"x","y","z">>, <<"1">> \o LowerString(SuffixKB)})
    \cup Values(kExchange, {backups, index, <<"a","l","l">>})
    \cup Values(kCompression, {lzma, lzo, <<"b","o","g","u","s">>})
    \cup Values(kBundleCompressionMethod, {lzo1x_1})
    \cup Values(kChunkMaxSize, {<<"6","5","5","3","6">>})
    \cup Values(kBundleMaxPayloadSize, {<<"2","0","9","7","1","5","2">>})
    \cup {<<>>, <<"=","4">>, <<"f","o","o","=","1">>, kThreads \o <<"=">>,
          UpperAt(kThreads, 1..Len(kThreads)) \o <<"=","4">>,
          kExchange \o <<".">> \o backups}

\* ------------------------------------------------------------ scan tables

\* Every token, name and value some specification hands to the parser.  The
\* scans depend on the text alone, so each is computed once per text.
TokenUniverse ==
  StorableTokens \cup ExchangeTokens \cup ThreadsTokens \cup CacheSizeTokens
    \cup CoreTokens

OptionScans == [option \in TokenUniverse |-> ScanOption(option)]

NameUniverse ==
  TokenUniverse \cup LookupNames
    \cup {OptionScans[option].optionName : option \in TokenUniverse}

ValueUniverse == {OptionScans[option].optionValue : option \in TokenUniverse}

Lookups ==
  [name \in NameUniverse, type \in OptionTypes |-> parseTokenFrom(name, type, 1)]

ThreadsScans == [value \in ValueUniverse |-> ScanThreadsValue(value)]

CacheSizeScans == [value \in ValueUniverse |-> ScanCacheSizeValue(value)]

\* The split of parseOption.
SplitOption(option) == OptionScans[option]

\* char optionName[ optionLength ], optionValue[ optionLength ]
BufferSize(option) == Len(option)

\* Whether the split wrote past the end of one of its two buffers.
SplitOverflows(option) ==
  \/ SplitOption(option).nameBytes > BufferSize(option)
  \/ SplitOption(option).valueBytes > BufferSize(option)

parseTokenNoTypeCheck(option, type) == parseTokenAnyType(option, type, 1)

\* Config::parseToken
parseToken(option, type) == Lookups[option, type]

\* ------------------------------------------------------------ the program

VARIABLES
  storable,             \* *config.storable: the ConfigInfo message
  runtime,              \* config.runtime: threads, cacheSize, exchange
  selectedCompression,  \* Compression::CompressionMethod::selectedCompression
  compiled,             \* the compression methods this build was compiled with
  call,                 \* the last call made: its arguments and its result
  compressionApplied    \* history: some compression token has been Applied

vars ==
  <<storable, runtime, selectedCompression, compiled, call, compressionApplied>>

\* The compression methods zbackup knows by name.
Methods == {"lzma", "lzo1x_1"}

\* A null const_sptr< CompressionMethod >.
NullMethod == "null"

\* Compression::CompressionMethod::findCompression( name )
findCompression(name) == IF name \in compiled THEN name ELSE NullMethod

\* CompressionMethod::getName()
getName(method) == method

\* An optional protobuf field is the empty set when unset, {v} when set to v.
Unset == {}

\* A ConfigInfo as the default constructor leaves it.
DefaultConfigInfo ==
  [chunk_max_size |-> Unset, bundle_max_payload_size |-> Unset,
   compression_method |-> Unset]

\* SET_STORABLE( bundle, compression_method, value )
SetCompressionMethod(info, value) ==
  [info EXCEPT !.compression_method = {value}]

\* The values of config.runtime in a default-constructed Config.
DefaultRuntime ==
  [threads   |-> FromNat(2, SizeBytes),
   cacheSize |-> FromNat(40 * 1024 * 1024, SizeBytes),
   exchange  |-> {}]

\* runtime.exchange.set( flag ), dropping what was set before.
ExchangeReplace(exchange, flag) == {flag}

\* runtime.exchange.set( flag )
ExchangeSet(exchange, flag) == exchange \cup {flag}

\* What parseOption hands back: its result and the state it leaves.
Outcome(ret, st) ==
  [ret |-> ret, storable |-> st.storable, runtime |-> st.runtime,
   selectedCompression |-> st.selectedCompression]

\* A handler that stores the method's name without selecting the method.
CompressionNoSelect(optionValue, st) ==
  LET wanted == IF strcmp0(optionValue, lzma) THEN "lzma"
                ELSE IF strcmp0(optionValue, lzo1x_1) \/ strcmp0(optionValue, lzo)
                  THEN "lzo1x_1"
                ELSE NullMethod
      found  == IF wanted = NullMethod THEN NullMethod ELSE findCompression(wanted)
  IN  IF found = NullMethod THEN Outcome("Rejected", st)
      ELSE Outcome("Applied",
             [st EXCEPT !.storable = SetCompressionMethod(@, getName(found))])

\* A handler that selects the method before it knows the method is there.
CompressionSelectEarly(optionValue, st) ==
  LET wanted == IF strcmp0(optionValue, lzma) THEN "lzma"
                ELSE IF strcmp0(optionValue, lzo1x_1) \/ strcmp0(optionValue, lzo)
                  THEN "lzo1x_1"
                ELSE NullMethod
      found  == IF wanted = NullMethod THEN NullMethod ELSE findCompression(wanted)
  IN  IF wanted = NullMethod THEN Outcome("Rejected", st)
      ELSE IF found = NullMethod
        THEN Outcome("Rejected", [st EXCEPT !.selectedCompression = wanted])
      ELSE Outcome("Applied",
             [st EXCEPT !.selectedCompression = found,
                        !.storable = SetCompressionMethod(@, getName(found))])

\* case oBundle_compression_method, given a value.
CompressionMethodCase(optionValue, st) ==
  LET wanted == IF strcmp0(optionValue, lzma) THEN "lzma"
                ELSE IF strcmp0(optionValue, lzo1x_1) \/ strcmp0(optionValue, lzo)
                  THEN "lzo1x_1"
                ELSE NullMethod
      found  == IF wanted = NullMethod THEN NullMethod ELSE findCompression(wanted)
  IN  IF found = NullMethod THEN Outcome("Rejected", st)
      ELSE Outcome("Applied",
             [st EXCEPT !.selectedCompression = found,
                        !.storable = SetCompressionMethod(@, getName(found))])

\* A handler that scans straight into runtime.threads and checks afterwards.
ThreadsStoresBeforeCheck(optionValue, st) ==
  LET scan   == ThreadsScans[optionValue]
      stored == IF scan.r = 1 THEN [st EXCEPT !.runtime.threads = scan.sizeValue]
                ELSE st
  IN  IF scan.r # 1 \/ scan.n < Len(optionValue) \/ IsZero(scan.sizeValue)
        THEN Outcome("Fatal", stored)
        ELSE Outcome("Applied", stored)

\* case oRuntime_threads, given a value:
\* sscanf( optionValue, "%zu %n", &sizeValue, &n ) != 1 || optionValue[ n ]
\* || sizeValue < 1 throws exInvalidThreadsValue.
ThreadsCase(optionValue, st) ==
  LET scan == ThreadsScans[optionValue]
  IN  IF scan.r # 1 \/ scan.n < Len(optionValue) \/ IsZero(scan.sizeValue)
        THEN Outcome("Fatal", st)
        ELSE Outcome("Applied", [st EXCEPT !.runtime.threads = scan.sizeValue])

\* The suffix chain of the cache-size handler: the scale of a lowered suffix,
\* 0 when the suffix is none of the seven.
SuffixScale(suffix) ==
  CASE strcmp0(suffix, <<"b">>)         -> 1
    [] strcmp0(suffix, <<"k","i","b">>) -> 1024
    [] strcmp0(suffix, <<"m","i","b">>) -> 1024 * 1024
    [] strcmp0(suffix, <<"g","i","b">>) -> 1024 * 1024 * 1024
    [] strcmp0(suffix, <<"k","b">>)     -> 1000
    [] strcmp0(suffix, <<"m","b">>)     -> 1000 * 1000
    [] strcmp0(suffix, <<"g","b">>)     -> 1000 * 1000 * 1000
    [] OTHER                            -> 0

\* case oRuntime_cacheSize, given a value:
\* sscanf( optionValue, "%zu %15s %n", &sizeValue, suffix, &n ) == 2
\* && !optionValue[ n ], then the suffix chain and sizeValue * scale.
CacheSizeCase(optionValue, st) ==
  LET scan  == CacheSizeScans[optionValue]
      scale == SuffixScale(LowerString(scan.suffix))
  IN  IF scan.r # 2 \/ scan.n < Len(optionValue) \/ scale = 0
        THEN Outcome("Rejected", st)
        ELSE Outcome("Applied",
               [st EXCEPT !.runtime.cacheSize =
                            MulMod(scan.sizeValue, FromNat(scale, SizeBytes))])

\* case oRuntime_exchange, given a value.
ExchangeCase(optionValue, st) ==
  LET flag == IF strcmp0(optionValue, backups) THEN "backups"
              ELSE IF strcmp0(optionValue, bundles) THEN "bundles"
              ELSE IF strcmp0(optionValue, index) THEN "index"
              ELSE "none"
  IN  IF flag = "none" THEN Outcome("Rejected", st)
      ELSE Outcome("Applied",
             [st EXCEPT !.runtime.exchange = ExchangeSet(@, flag)])

\* The switch of parseOption: each case declines a missing value first; the
\* size options of the storable record have no case and fall to the default.
Dispatch(opcode, hasValue, optionValue, st) ==
  CASE opcode = "oBundle_compression_method" ->
         IF ~hasValue THEN Outcome("Rejected", st)
         ELSE CompressionMethodCase(optionValue, st)
    [] opcode = "oRuntime_threads" ->
         IF ~hasValue THEN Outcome("Rejected", st)
         ELSE ThreadsCase(optionValue, st)
    [] opcode = "oRuntime_cacheSize" ->
         IF ~hasValue THEN Outcome("Rejected", st)
         ELSE CacheSizeCase(optionValue, st)
    [] opcode = "oRuntime_exchange" ->
         IF ~hasValue THEN Outcome("Rejected", st)
         ELSE ExchangeCase(optionValue, st)
    [] OTHER -> Outcome("Rejected", st)

\* bool hasValue after the split.
HasValue(option) == SplitOption(option).r = 2

\* int opcode = parseToken( hasValue ? optionName : option, type )
Opcode(option, type) ==
  parseToken(IF HasValue(option) THEN SplitOption(option).optionName ELSE option,
             type)

\* Config::parseOption( option, type ) run on state st, when the writes of the
\* split stay inside its buffers (or land where nothing reads them).
parseOption(option, type, st) ==
  Dispatch(Opcode(option, type), HasValue(option),
           SplitOption(option).optionValue, st)

\* ------------------------------------------------- the text of a ConfigInfo

\* A text is a sequence of lines; a line names a field and gives a value, or
\* is blank, or is something the text format does not know.
fChunkMaxSize == "chunk.max_size"

fBundleMaxPayloadSize == "bundle.max_payload_size"

fBundleCompressionMethod == "bundle.compression_method"

BlankLine == [key |-> "", val |-> ""]

JunkLine == [key |-> "?", val |-> "?"]

Line(key, val) == [key |-> key, val |-> val]

\* The lines of one field of a message: none when the field is unset.
FieldText(key, field) ==
  IF field = Unset THEN <<>> ELSE <<Line(key, CHOOSE v \in field : TRUE)>>

\* google::protobuf::TextFormat::PrintToString: the set fields, in field order.
PrintToString(info) ==
  FieldText(fChunkMaxSize, info.chunk_max_size)
    \o FieldText(fBundleMaxPayloadSize, info.bundle_max_payload_size)
    \o FieldText(fBundleCompressionMethod, info.compression_method)

\* The values the text format accepts for a numeric field.
IsNumber(val) == val \in {"65536", "2097152"}

\* google::protobuf::TextFormat::ParseFromString from line i on, into info:
\* blank lines are skipped; an unknown field, a field given twice or a
\* number field with a non-number fails the parse.
RECURSIVE ParseLines(_, _, _)
ParseLines(text, i, info) ==
  IF i > Len(text) THEN [ok |-> TRUE, info |-> info]
  ELSE LET l == text[i]
       IN  CASE l = BlankLine -> ParseLines(text, i + 1, info)
             [] l.key = fChunkMaxSize
                  /\ info.chunk_max_size = Unset /\ IsNumber(l.val) ->
                  ParseLines(text, i + 1, [info EXCEPT !.chunk_max_size = {l.val}])
             [] l.key = fBundleMaxPayloadSize
                  /\ info.bundle_max_payload_size = Unset /\ IsNumber(l.val) ->
                  ParseLines(text, i + 1,
                             [info EXCEPT !.bundle_max_payload_size = {l.val}])
             [] l.key = fBundleCompressionMethod
                  /\ info.compression_method = Unset ->
                  ParseLines(text, i + 1,
                             [info EXCEPT !.compression_method = {l.val}])
             [] OTHER -> [ok |-> FALSE, info |-> info]

ParseFromString(text) == ParseLines(text, 1, DefaultConfigInfo)

\* Config::toString( message )
toString(info) == PrintToString(info)

\* Config::parse( str, mutable_message )
parse(str) == ParseFromString(str)

\* Message::CopyFrom( from ): the receiver becomes equal to from.
CopyFrom(info, from) == from

\* An edit that commits without the "no changes" comparison.
editAlwaysCommits(info, editor) ==
  IF ~editor.ok THEN [ret |-> FALSE, exit |-> "ABORTED", storable |-> info]
  ELSE LET newConfig == parse(editor.text)
       IN  IF ~newConfig.ok
             THEN [ret |-> FALSE, exit |-> "ABORTED", storable |-> info]
           ELSE [ret |-> TRUE, exit |-> "COMMITTED",
                 storable |-> CopyFrom(info, newConfig.info)]

\* Config::editInteractively on the stored record info, when spawnEditor
\* hands back editor: ok is its result, text what it left in newConfigData.
\* exit names the return statement taken.
editInteractively(info, editor) ==
  IF ~editor.ok THEN [ret |-> FALSE, exit |-> "ABORTED", storable |-> info]
  ELSE LET newConfig == parse(editor.text)
       IN  IF ~newConfig.ok
             THEN [ret |-> FALSE, exit |-> "ABORTED", storable |-> info]
           ELSE IF toString(info) = toString(newConfig.info)
             THEN [ret |-> FALSE, exit |-> "NO_CHANGE", storable |-> info]
           ELSE [ret |-> TRUE, exit |-> "COMMITTED",
                 storable |-> CopyFrom(info, newConfig.info)]

\* ------------------------------------------------------------- edit inputs

\* The longest run of lines an edited text holds.
MaxTextLines == 2

\* The lines an editor may leave, and the texts made of them.
EditLines ==
  {Line(fChunkMaxSize, "65536"), Line(fBundleCompressionMethod, "lzma"),
   Line(fBundleCompressionMethod, "lzo1x_1"), BlankLine, JunkLine}

EditTexts == Strings(EditLines, MaxTextLines)

\* What spawnEditor may hand back: failure, or success with any text.
EditorResults ==
  {[ok |-> FALSE, text |-> <<>>]} \cup {[ok |-> TRUE, text |-> t] : t \in EditTexts}

\* ---------------------------------------------------------------- actions

State ==
  [storable |-> storable, runtime |-> runtime,
   selectedCompression |-> selectedCompression]

\* A Config built by Config::Config(): a fresh ConfigInfo, the default
\* runtime settings.  The build fixes which compression methods exist, and one
\* of them (none, in a build without any) is selected from the start.
InitConfig ==
  /\ storable = DefaultConfigInfo
  /\ runtime = DefaultRuntime
  /\ compiled \in SUBSET Methods
  /\ selectedCompression \in (IF compiled = {} THEN {NullMethod} ELSE compiled)
  /\ compressionApplied = FALSE

Init ==
  /\ InitConfig
  /\ call = [op |-> "Config", ret |-> "constructed"]

\* The same, in a build that has both compression methods.
InitFullBuild ==
  /\ Init
  /\ compiled = Methods
  /\ selectedCompression = "lzma"

\* The process is still running: no earlier call has brought it down.
Running == call.ret # "Crash"

\* One call of parseOption( option, type ).  When the split writes past the
\* end of optionName the behaviour is undefined: the stray byte may land where
\* nothing reads it, and the call goes on as written, or it may bring the
\* process down.
ParseOptionCall(option, type) ==
  /\ Running
  /\ \/ \E out \in {parseOption(option, type, State)} :
            /\ storable' = out.storable
            /\ runtime' = out.runtime
            /\ selectedCompression' = out.selectedCompression
            /\ compressionApplied' =
                 (\/ compressionApplied
                  \/ /\ out.ret = "Applied"
                     /\ Opcode(option, type) = "oBundle_compression_method")
            /\ call' = [op |-> "parseOption", option |-> option, type |-> type,
                        ret |-> out.ret]
     \/ /\ SplitOverflows(option)
        /\ call' = [op |-> "parseOption", option |-> option, type |-> type,
                    ret |-> "Crash"]
        /\ UNCHANGED <<storable, runtime, selectedCompression, compressionApplied>>
  /\ UNCHANGED compiled

\* One call of editInteractively: the editor hands back any of EditorResults.
EditInteractivelyCall(editor) ==
  /\ Running
  /\ \E out \in {editInteractively(storable, editor)} :
         /\ storable' = out.storable
         /\ call' = [op |-> "editInteractively", editor |-> editor,
                     ret |-> out.exit, value |-> out.ret]
  /\ UNCHANGED <<runtime, selectedCompression, compiled, compressionApplied>>

\* One call of parseToken on the arguments the initial state holds.
ParseTokenCall ==
  /\ call.op = "arguments"
  /\ call' = [op |-> "parseToken", option |-> call.option, type |-> call.type,
              ret |-> parseToken(call.option, call.type)]
  /\ UNCHANGED <<storable, runtime, selectedCompression, compiled, compressionApplied>>

ParseOver(tokens) ==
  \E option \in tokens, type \in OptionTypes : ParseOptionCall(option, type)

Edit == \E editor \in EditorResults : EditInteractivelyCall(editor)

\* The storable side: parseOption on the storable options' tokens, in either
\* category, and the interactive edit.
ParseStorable == ParseOver(StorableTokens)

Next == ParseStorable \/ Edit

Spec == Init /\ [][Next]_vars

\* parseOption over a few tokens of every option, in either category.
ParseCore == ParseOver(CoreTokens)

NextParse == ParseCore

SpecParse == Init /\ [][NextParse]_vars

\* parseOption over the tokens of one runtime option, in either category.
ParseExchange == ParseOver(ExchangeTokens)

NextExchange == ParseExchange

SpecExchange == InitFullBuild /\ [][NextExchange]_vars

ParseThreads == ParseOver(ThreadsTokens)

NextThreads == ParseThreads

SpecThreads == InitFullBuild /\ [][NextThreads]_vars

ParseCacheSize == ParseOver(CacheSizeTokens)

NextCacheSize == ParseCacheSize

SpecCacheSize == InitFullBuild /\ [][NextCacheSize]_vars

\* parseToken alone: the initial state holds the arguments of one call.
InitLookup ==
  /\ InitConfig
  /\ compiled = Methods
  /\ selectedCompression = "lzma"
  /\ \E option \in LookupNames, type \in OptionTypes :
       call = [op |-> "arguments", option |-> option, type |-> type,
               ret |-> "pending"]

NextLookup == ParseTokenCall

SpecLookup == InitLookup /\ [][NextLookup]_vars

\* ------------------------------------------------------ reading the claims

\* The last call was parseOption, on a token of the form name=value whose
\* name is one of names (in any spelling), asked for under category type.
\* The value of such a token is the value part the split hands the handler.
ParsedToken(c, names, type) ==
  /\ c.op = "parseOption"
  /\ c.type = type
  /\ HasValue(c.option)
  /\ \E n \in names : strcasecmp0(SplitOption(c.option).optionName, n)

ValueOf(c) == SplitOption(c.option).optionValue

\* a seen as a wider unsigned integer.
Extend(a, w) == a \o Zero(w - Len(a))

\* Twice the width of size_t: wide enough for the exact value of every number
\* and product the inputs spell.
WideBytes == 2 * SizeBytes

IsDigits(s) == Len(s) > 0 /\ \A i \in 1..Len(s) : isdigit(s[i])

\* The integer each string of digits among the values denotes, exactly.
ExactDecimals ==
  [digits \in {v \in ValueUniverse : IsDigits(v)} |->
     DecimalValue(digits, 1, Len(digits), WideBytes).value]

ExactDecimal(digits) == ExactDecimals[digits]

\* ---------------------------------------------------------------------- C1
\* C1: every run of editInteractively ends in exactly one of COMMITTED,
\* NO_CHANGE or ABORTED and returns true only in COMMITTED.  If the editor
\* fails or its text does not parse, the run is ABORTED and the stored record
\* is what it was; if the text printed from the parsed candidate equals the
\* text of the stored record, the run is NO_CHANGE and the stored record is
\* what it was; in every other case the run is COMMITTED and the stored record
\* is exactly the parsed candidate.
C1_EditCommitsOrLeavesUntouched ==
  [][ call'.op = "editInteractively" =>
        LET editor    == call'.editor
            candidate == ParseFromString(editor.text)
        IN  /\ call'.ret \in {"COMMITTED", "NO_CHANGE", "ABORTED"}
            /\ call'.value = (call'.ret = "COMMITTED")
            /\ IF ~editor.ok \/ ~candidate.ok
                 THEN call'.ret = "ABORTED" /\ storable' = storable
               ELSE IF PrintToString(candidate.info) = PrintToString(storable)
                 THEN call'.ret = "NO_CHANGE" /\ storable' = storable
               ELSE call'.ret = "COMMITTED" /\ storable' = candidate.info ]_vars

\* An edit has been committed: the stored record is the candidate parsed from
\* a text that is not the text it prints to.
C1_Witness ==
  /\ call.op = "editInteractively"
  /\ call.ret = "COMMITTED"
  /\ storable = ParseFromString(call.editor.text).info
  /\ storable # DefaultConfigInfo
  /\ PrintToString(storable) # call.editor.text

\* ---------------------------------------------------------------------- C2
ExchangeFlag(value) ==
  CASE value = backups -> {"backups"}
    [] value = bundles -> {"bundles"}
    [] value = index   -> {"index"}
    [] OTHER           -> {}

\* C2: the exchange set starts empty; an exchange=<v> runtime token is Applied
\* exactly when v is backups, bundles or index, and then adds v to the set
\* without removing anything; every other call leaves the set as it was.  So
\* the set is always the union of the values Applied so far.
C2_ExchangeAccumulates ==
  /\ call.op = "Config" => runtime.exchange = {}
  /\ [][ call'.op = "parseOption" =>
           IF ParsedToken(call', {kExchange}, "Runtime")
             THEN /\ (call'.ret = "Applied") = (ExchangeFlag(ValueOf(call')) # {})
                  /\ call'.ret \in {"Applied", "Rejected"}
                  /\ runtime'.exchange =
                       runtime.exchange \cup ExchangeFlag(ValueOf(call'))
             ELSE runtime'.exchange = runtime.exchange ]_vars

\* exchange=backups, then exchange=index: the set holds both.
C2_Witness ==
  /\ call.op = "parseOption"
  /\ call.option = WithValue(kExchange, index)
  /\ call.ret = "Applied"
  /\ runtime.exchange = {"backups", "index"}

\* ---------------------------------------------------------------------- C3
\* A positive decimal integer: digits only, not all of them zero.
IsPositiveDecimal(s) == IsDigits(s) /\ \E i \in 1..Len(s) : s[i] # "0"

\* C3: for a runtime token threads=<v>: if v is a positive decimal integer the
\* parse is Applied and the thread count becomes that integer; for every
\* other v the parse is Fatal and the thread count keeps its value.
C3_ThreadsPositiveOrFatal ==
  [][ ParsedToken(call', {kThreads}, "Runtime") =>
        IF IsPositiveDecimal(ValueOf(call'))
          THEN /\ call'.ret = "Applied"
               /\ Extend(runtime'.threads, WideBytes) = ExactDecimal(ValueOf(call'))
          ELSE /\ call'.ret = "Fatal"
               /\ runtime'.threads = runtime.threads ]_vars

\* ---------------------------------------------------------------------- C4
\* The multiplier the table gives a suffix, matched in any case; 0 for none.
TableScale(suffix) ==
  CASE strcasecmp0(suffix, SuffixB)   -> 1
    [] strcasecmp0(suffix, SuffixKiB) -> 1024
    [] strcasecmp0(suffix, SuffixMiB) -> 1024 * 1024
    [] strcasecmp0(suffix, SuffixGiB) -> 1024 * 1024 * 1024
    [] strcasecmp0(suffix, SuffixKB)  -> 1000
    [] strcasecmp0(suffix, SuffixMB)  -> 1000 * 1000
    [] strcasecmp0(suffix, SuffixGB)  -> 1000 * 1000 * 1000
    [] OTHER                          -> 0

\* The places where text splits into a non-negative integer and a suffix of
\* the table (there is at most one).
SizeSplits(text) ==
  {k \in 1..Len(text) : IsDigits(Take(text, k)) /\ TableScale(Drop(text, k)) # 0}

\* For each value that is a non-negative integer n and a suffix of the table
\* with multiplier m, the product n * m, exactly.
ExactSizes ==
  [text \in {v \in ValueUniverse : SizeSplits(v) # {}} |->
     CHOOSE size \in
       UNION {{MulMod(n, m) : n \in {DecimalValue(text, 1, k, WideBytes).value},
                              m \in {FromNat(TableScale(Drop(text, k)), WideBytes)}} :
                k \in SizeSplits(text)} : TRUE]

\* C4: for a runtime token cache-size=<text>: the parse is Applied, and the
\* cache size becomes exactly n * m, if and only if text is a non-negative
\* integer n followed by a suffix of the table with multiplier m; for every
\* other text the parse is Rejected and the cache size keeps its value.
C4_CacheSizeIsNumberTimesSuffix ==
  [][ ParsedToken(call', {kCacheSize}, "Runtime") =>
        IF SizeSplits(ValueOf(call')) # {}
          THEN /\ call'.ret = "Applied"
               /\ Extend(runtime'.cacheSize, WideBytes) = ExactSizes[ValueOf(call')]
          ELSE /\ call'.ret = "Rejected"
               /\ runtime'.cacheSize = runtime.cacheSize ]_vars

\* ---------------------------------------------------------------------- C5
\* The descriptors whose name is the given one, in any spelling, and whose
\* category is the given one.
Descriptors(name, type) ==
  {i \in 1..Len(keywords) :
     /\ LowerString(keywords[i].name) = LowerString(name)
     /\ keywords[i].type = type}

\* C5: parseToken gives the opcode of the descriptor whose name equals the
\* input case-insensitively and whose category is the requested one; when no
\* descriptor has that name, or only one of the other category has, it gives
\* oBadOption, never an opcode registered under the other category.
C5_LookupByNameAndCategory ==
  call.op = "parseToken" =>
    /\ IF Descriptors(call.option, call.type) = {}
         THEN call.ret = "oBadOption"
         ELSE \A i \in Descriptors(call.option, call.type) :
                call.ret = keywords[i].opcode
    /\ \A other \in LookupNames :
         LowerString(other) = LowerString(call.option)
           => parseToken(other, call.type) = call.ret

\* A registered name in upper case resolves under its own category.
C5_Witness ==
  /\ call.op = "parseToken"
  /\ call.option = UpperAt(kCacheSize, 1..Len(kCacheSize))
  /\ call.type = "Runtime"
  /\ call.ret = "oRuntime_cacheSize"

\* ---------------------------------------------------------------------- C6
\* The method a compression value asks for; NullMethod when it names none.
WantedMethod(value) ==
  IF value = lzma THEN "lzma"
  ELSE IF value \in {lzo1x_1, lzo} THEN "lzo1x_1"
  ELSE NullMethod

\* C6: for a storable token compression=<v> or bundle.compression_method=<v>:
\* the parse is Applied if and only if v is exactly lzma, lzo1x_1 or lzo and
\* the build has the method; then the method becomes the selected one and its
\* name the record's compression field.  Otherwise the parse is Rejected and
\* both keep their values.
C6_CompressionNeedsCapability ==
  [][ ParsedToken(call', {kCompression, kBundleCompressionMethod}, "Storable") =>
        IF WantedMethod(ValueOf(call')) \in compiled
          THEN /\ call'.ret = "Applied"
               /\ selectedCompression' = WantedMethod(ValueOf(call'))
               /\ storable'.compression_method = {WantedMethod(ValueOf(call'))}
          ELSE /\ call'.ret = "Rejected"
               /\ selectedCompression' = selectedCompression
               /\ storable'.compression_method = storable.compression_method ]_vars

\* compression=lzo has been Applied: lzo1x_1 is selected and stored.
C6_Witness ==
  /\ call.op = "parseOption"
  /\ call.option = WithValue(kCompression, lzo)
  /\ call.ret = "Applied"
  /\ selectedCompression = "lzo1x_1"
  /\ storable.compression_method = {"lzo1x_1"}

\* ---------------------------------------------------------------------- C7
StorableFields == {"chunk_max_size", "bundle_max_payload_size", "compression_method"}

RuntimeFields == {"threads", "cacheSize", "exchange"}

FieldsOf(type) == IF type = "Storable" THEN StorableFields ELSE RuntimeFields

\* The field an opcode's handler assigns.
TargetField(opcode) ==
  CASE opcode = "oBundle_compression_method" -> "compression_method"
    [] opcode = "oRuntime_threads"           -> "threads"
    [] opcode = "oRuntime_cacheSize"         -> "cacheSize"
    [] opcode = "oRuntime_exchange"          -> "exchange"
    [] OTHER                                 -> "none"

\* The fields of the two records whose value the step changes.
ChangedFields ==
  {f \in StorableFields : storable'[f] # storable[f]}
    \cup {f \in RuntimeFields : runtime'[f] # runtime[f]}

\* C7, as stated: an Applied parse changes exactly one field, a field of the
\* record of the requested category; a Rejected or Fatal parse leaves both
\* records as they were.
C7_AppliedChangesExactlyOneField ==
  [][ call'.op = "parseOption" =>
        /\ call'.ret = "Applied" =>
             /\ Cardinality(ChangedFields) = 1
             /\ ChangedFields \subseteq FieldsOf(call'.type)
        /\ call'.ret \in {"Rejected", "Fatal"} =>
             storable' = storable /\ runtime' = runtime ]_vars

\* C7, amended: an Applied parse changes at most one field: the field its
\* option names, which belongs to the record of the requested category (it
\* changes none when that field already has the value applied); a Rejected or
\* Fatal parse leaves both records as they were.
C7_AppliedChangesOnlyItsField ==
  [][ call'.op = "parseOption" =>
        /\ call'.ret = "Applied" =>
             /\ ChangedFields \subseteq {TargetField(Opcode(call'.option, call'.type))}
             /\ TargetField(Opcode(call'.option, call'.type)) \in FieldsOf(call'.type)
        /\ call'.ret \in {"Rejected", "Fatal"} =>
             storable' = storable /\ runtime' = runtime ]_vars

\* threads=4 has been Applied on a record whose exchange set and compression
\* method earlier tokens set: both are still there.
C7_Witness ==
  /\ call.op = "parseOption"
  /\ call.option = WithValue(kThreads, <<"4">>)
  /\ call.ret = "Applied"
  /\ runtime.threads = FromNat(4, SizeBytes)
  /\ runtime.exchange = {"backups"}
  /\ storable.compression_method = {"lzma"}

\* ---------------------------------------------------------------------- C8
\* The record's compression field names the selected method.
InStep == storable.compression_method = {getName(selectedCompression)}

\* C8, as stated: once a compression token has been Applied, the compression
\* field of the stored record is the name of the selected method, whatever
\* parses and edits follow.
C8_FieldNamesSelectedMethod == compressionApplied => InStep

\* C8, amended: an Applied compression token leaves the field naming the
\* selected method, and every later parse and every edit that ends NO_CHANGE
\* or ABORTED keeps it so; an edit never changes the selection, so a
\* COMMITTED edit, and nothing else, can put the two out of step.
C8_OnlyCommittedEditBreaksStep ==
  [][ /\ ( /\ call'.op = "parseOption"
           /\ call'.ret = "Applied"
           /\ Opcode(call'.option, call'.type) = "oBundle_compression_method" )
        => InStep'
      /\ ( InStep /\ ~(call'.op = "editInteractively" /\ call'.ret = "COMMITTED") )
        => InStep'
      /\ call'.op = "editInteractively" =>
           selectedCompression' = selectedCompression ]_vars

\* After an Applied compression token, a COMMITTED edit has left a field that
\* does not name the selected method.
C8_Witness ==
  /\ compressionApplied
  /\ call.op = "editInteractively"
  /\ call.ret = "COMMITTED"
  /\ ~InStep

\* ---------------------------------------------------------------------- C9
\* The last call was parseOption on one of the two size options of the
\* storable record, bare or with a value, asked for as Storable.
SizeOptionToken(c) ==
  /\ c.op = "parseOption"
  /\ c.type = "Storable"
  /\ \E n \in {kChunkMaxSize, kBundleMaxPayloadSize} :
       \/ strcasecmp0(c.option, n)
       \/ HasValue(c.option) /\ strcasecmp0(SplitOption(c.option).optionName, n)

\* C9: chunk.max_size and bundle.max_payload_size resolve under Storable, yet
\* a parse of either, bare or with any value, is Rejected and leaves the
\* Storable record as it was; of the storable options only the compression
\* method is ever Applied.
C9_SizeOptionsAreRejected ==
  [][ /\ SizeOptionToken(call') =>
           /\ Opcode(call'.option, "Storable")
                \in {"oChunk_max_size", "oBundle_max_payload_size"}
           /\ call'.ret = "Rejected"
           /\ storable' = storable
      /\ ( call'.op = "parseOption" /\ call'.type = "Storable"
             /\ call'.ret = "Applied" )
           => Opcode(call'.option, "Storable") = "oBundle_compression_method" ]_vars

\* --------------------------------------------------------------------- C10
\* C10: whatever the token, the name and the value the split writes, each
\* with its terminating NUL, fit in the optionLength bytes of their buffers.
C10_SplitStaysInsideBuffers ==
  call.op = "parseOption" =>
    /\ SplitOption(call.option).nameBytes <= BufferSize(call.option)
    /\ SplitOption(call.option).valueBytes <= BufferSize(call.option)

====
